---- MODULE Spec2Model ----
(***************************************************************************)
(* The persistent state of the autonomous-project harness (one SQLite      *)
(* file, four tables) and the operations of its writers: the console       *)
(* ProjectState / CoordinatorAgent (autonomous_project.py), the dashboard  *)
(* ProjectState (autonomous_project_web.py), TaskSync (task_sync.py) and   *)
(* the two command-line utilities (sync_tasks_to_db.py,                    *)
(* sync_agent_to_db.py).                                                   *)
(***************************************************************************)
EXTENDS Integers, Sequences, FiniteSets, TLC

(***************************************************************************)
(* Bounds of the model.                                                    *)
(***************************************************************************)
\* the clock takes the values 0..MaxTime
MaxTime == 1
\* clock ticks per second: strftime("%Y%m%d_%H%M%S") drops what is below a second
TicksPerSecond == 1
\* task rows ever inserted (AUTOINCREMENT never reuses an id)
MaxTasks == 2
\* task rows ever inserted where duplicates of one task_id are looked at
MaxDupTasks == 3
\* agent rows ever inserted
MaxAgents == 1
\* report rows ever inserted
MaxReports == 2
\* longest reconciliation payload
MaxLen == 2

\* task rows ever inserted in SpecAll
MaxAllTasks == 1

(***************************************************************************)
(* Values.                                                                 *)
(***************************************************************************)
\* Python None / SQL NULL in a text column
NULL == "NULL"
\* SQL NULL in completed_at
NoTime == 0 - 1
\* session_id=None, and "no handle"
NoSession == 0 - 1
\* a key a JSON record does not carry
Absent == "<absent>"

TaskIds == {"t1", "t2"}
Statuses == {"pending", "in_progress", "completed"}
Descriptions == {"d1", "d2"}
Roles == {"builder"}
Goals == {"g1"}
AgentIds == {"planner_001", "builder_001"}
AgentStatuses == {"active", "retired"}

\* Python truthiness of an optional string argument: None and '' are false
Truthy(v) == v # NULL /\ v # ""

\* a or b
Or(a, b) == IF Truthy(a) THEN a ELSE b

\* datetime.now().isoformat(): the clock at full resolution
Iso(t) == t

\* datetime.now().strftime("%Y%m%d_%H%M%S"): the clock cut to whole seconds
Stamp(t) == t \div TicksPerSecond

Seconds == {Stamp(t) : t \in 0..MaxTime}

(***************************************************************************)
(* Reconciliation payloads: json.loads(tasks_json).  An element is a JSON  *)
(* object (kind "dict") with some of the keys, or not an object at all     *)
(* (kind "str").  A payload is a list of elements, or valid JSON that is   *)
(* no list, or text that does not parse.                                   *)
(***************************************************************************)
Rec(id, task_id, subject, description, status, owner, agent_role) ==
    [kind |-> "dict", id |-> id, task_id |-> task_id, subject |-> subject,
     description |-> description, status |-> status, owner |-> owner,
     agent_role |-> agent_role]

NotARecord ==
    [kind |-> "str", id |-> Absent, task_id |-> Absent, subject |-> Absent,
     description |-> Absent, status |-> Absent, owner |-> Absent,
     agent_role |-> Absent]

Elements ==
    { Rec("t1", Absent, Absent, Absent, "completed", Absent, Absent),
      Rec(Absent, "t1", Absent, "d1", "in_progress", "builder", Absent),
      Rec("t2", Absent, "d2", Absent, Absent, Absent, "builder"),
      Rec(Absent, Absent, "d2", Absent, "completed", Absent, Absent),
      NotARecord }

Lists == UNION { [1..n -> Elements] : n \in 0..MaxLen }

\* dict.get(key): None when the key is missing
Get(v) == IF v = Absent THEN NULL ELSE v

\* dict.get(key, default)
GetOr(v, default) == IF v = Absent THEN default ELSE v

\* str(task_id): the identifiers of the payloads are JSON strings
Str(v) == v

Payloads ==
    { [kind |-> "list", items |-> l] : l \in Lists }
    \cup { [kind |-> "object", items |-> << >>], [kind |-> "invalid", items |-> << >>] }

(***************************************************************************)
(* The store: .autonomous_project.db.  A table is the set of its rows;     *)
(* seq holds, per table, the largest id ever given (sqlite_sequence of an  *)
(* AUTOINCREMENT key).  Foreign keys are declared but SQLite does not      *)
(* enforce them unless the connection asks for it, and no connection does. *)
(***************************************************************************)
VARIABLES
    now,          \* the wall clock, in ticks
    db_exists,    \* the file .autonomous_project.db exists (the tables with it)
    sessions,     \* rows of table sessions
    agents,       \* rows of table agents
    tasks,        \* rows of table tasks
    reports,      \* rows of table reports
    seq,          \* sqlite_sequence: [tasks, agents, reports]
    coordinator,  \* coordinator.state.session_id of the live CoordinatorAgent
    web,          \* state.session_id of the dashboard's ProjectState
    lastOp,       \* the last operation: name, arguments, result, tasks before it
    console,      \* the run of the console entry point: its position and locals
    running       \* the calls in progress that take several store statements

vars == << now, db_exists, sessions, agents, tasks, reports, seq, coordinator,
           web, lastOp, console, running >>

\* SELECT session_id FROM sessions ORDER BY created_at DESC LIMIT 1: the rows
\* fetchone() may return (rows of equal created_at come in no fixed order)
Newest(S) == { s \in S : \A o \in S : o.created_at <= s.created_at }

\* cursor.fetchone() of that query: a session_id, or NoSession for no row
FetchLatest(S) ==
    IF S = {} THEN {NoSession} ELSE { s.session_id : s \in Newest(S) }

SessionIds(S) == { s.session_id : s \in S }

\* INSERT INTO sessions (session_id, created_at, project_goal): the phase
\* takes the column's default
SessionRow(session_id, created_at, project_goal, current_phase) ==
    [session_id |-> session_id, created_at |-> created_at,
     project_goal |-> project_goal, current_phase |-> current_phase]

TaskRow(id, session_id, task_id, agent_role, description, status, created_at, completed_at) ==
    [id |-> id, session_id |-> session_id, task_id |-> task_id,
     agent_role |-> agent_role, description |-> description, status |-> status,
     created_at |-> created_at, completed_at |-> completed_at]

AgentRow(id, session_id, role, agent_id, started_at, status) ==
    [id |-> id, session_id |-> session_id, role |-> role, agent_id |-> agent_id,
     started_at |-> started_at, status |-> status]

ReportRow(id, session_id, timestamp, phase, completed_tasks, data) ==
    [id |-> id, session_id |-> session_id, timestamp |-> timestamp,
     phase |-> phase, completed_tasks |-> completed_tasks, data |-> data]

(***************************************************************************)
(* Task writers, as functions of the tasks table T.  id is the key the     *)
(* insert is given, t the clock the call reads.                            *)
(***************************************************************************)
\* add_task as it would be with a duplicate check on (session_id, task_id)
ProjectState_add_task_Unique(T, id, self_session_id, task_id, agent_role, description, t) ==
    IF \E r \in T : r.task_id = task_id /\ r.session_id = self_session_id
      THEN T
      ELSE T \cup { TaskRow(id, self_session_id, task_id, agent_role, description,
                            "pending", Iso(t), NoTime) }

\* console ProjectState.add_task
ProjectState_add_task(T, id, self_session_id, task_id, agent_role, description, t) ==
    T \cup { TaskRow(id, self_session_id, task_id, agent_role, description,
                     "pending", Iso(t), NoTime) }

\* console ProjectState.complete_task
\* a completion that sets the status and leaves completed_at alone
ProjectState_complete_task_StatusOnly(T, self_session_id, task_id, t) ==
    { IF r.task_id = task_id /\ r.session_id = self_session_id
        THEN [r EXCEPT !.status = "completed"]
        ELSE r : r \in T }

ProjectState_complete_task(T, self_session_id, task_id, t) ==
    { IF r.task_id = task_id /\ r.session_id = self_session_id
        THEN [r EXCEPT !.status = "completed", !.completed_at = Iso(t)]
        ELSE r : r \in T }

\* get_completed_tasks_count as it would be without the session in the WHERE clause
ProjectState_get_completed_tasks_count_AllSessions(T, self_session_id) ==
    Cardinality({ r \in T : r.status = "completed" })

\* console ProjectState.get_completed_tasks_count
ProjectState_get_completed_tasks_count(T, self_session_id) ==
    Cardinality({ r \in T : r.session_id = self_session_id /\ r.status = "completed" })

\* dashboard ProjectState.add_task
Web_add_task(T, id, self_session_id, task_id, agent_role, description, session_id, t) ==
    LET sid == IF session_id # NoSession THEN session_id ELSE self_session_id
    IN  T \cup { TaskRow(id, sid, task_id, agent_role, description, "pending",
                         Iso(t), NoTime) }

\* an UPDATE that sets completed_at to NULL with every status but completed
UpdateStatement_ClearStamp(T, task_id, status, agent_role, description, t) ==
    { IF r.task_id = task_id
        THEN [r EXCEPT
                !.status = IF Truthy(status) THEN status ELSE @,
                !.completed_at = IF ~Truthy(status) THEN @
                                 ELSE IF status = "completed" THEN Iso(t) ELSE NoTime,
                !.agent_role = IF Truthy(agent_role) THEN agent_role ELSE @,
                !.description = IF Truthy(description) THEN description ELSE @]
        ELSE r : r \in T }

\* the UPDATE statement update_task builds from the arguments that are truthy
UpdateStatement(T, task_id, status, agent_role, description, t) ==
    { IF r.task_id = task_id
        THEN [r EXCEPT
                !.status = IF Truthy(status) THEN status ELSE @,
                !.completed_at = IF Truthy(status) /\ status = "completed"
                                   THEN Iso(t) ELSE @,
                !.agent_role = IF Truthy(agent_role) THEN agent_role ELSE @,
                !.description = IF Truthy(description) THEN description ELSE @]
        ELSE r : r \in T }

\* an update_task that writes agent_role and description on every call, None
\* for the ones not supplied
Web_update_task_Overwrite(T, task_id, status, agent_role, description, t) ==
    { IF r.task_id = task_id
        THEN [r EXCEPT
                !.status = IF Truthy(status) THEN status ELSE @,
                !.completed_at = IF Truthy(status) /\ status = "completed"
                                   THEN Iso(t) ELSE @,
                !.agent_role = agent_role,
                !.description = description]
        ELSE r : r \in T }

\* dashboard ProjectState.update_task
Web_update_task(T, task_id, status, agent_role, description, t) ==
    IF Truthy(status) \/ Truthy(agent_role) \/ Truthy(description)
      THEN UpdateStatement(T, task_id, status, agent_role, description, t)
      ELSE T

\* dashboard ProjectState.delete_task
Web_delete_task(T, task_id) == { r \in T : r.task_id # task_id }

\* a create_task that inserts only when no row carries the task_id
\* (INSERT ... WHERE NOT EXISTS)
TaskSync_create_task_IfAbsent(T, id, latest, task_id, description, agent_role, session_id, t) ==
    LET sid == IF session_id # NoSession THEN session_id
               ELSE IF latest # NoSession THEN latest ELSE Stamp(t)
    IN  IF \E r \in T : r.task_id = task_id THEN T
        ELSE T \cup { TaskRow(id, sid, task_id, agent_role, description, "pending",
                              Iso(t), NoTime) }

\* TaskSync.create_task; latest is what fetchone() returned
TaskSync_create_task(T, id, latest, task_id, description, agent_role, session_id, t) ==
    LET sid == IF session_id # NoSession THEN session_id
               ELSE IF latest # NoSession THEN latest ELSE Stamp(t)
    IN  T \cup { TaskRow(id, sid, task_id, agent_role, description, "pending",
                         Iso(t), NoTime) }

\* TaskSync.update_task as it would be with every column written on every call
\* (UPDATE tasks SET status = ?, agent_role = ?, description = ?)
TaskSync_update_task_AllColumns(T, task_id, status, agent_role, description, t) ==
    { IF r.task_id = task_id
        THEN [r EXCEPT
                !.status = IF Truthy(status) THEN status ELSE @,
                !.completed_at = IF Truthy(status) /\ status = "completed"
                                   THEN Iso(t) ELSE @,
                !.agent_role = agent_role,
                !.description = description]
        ELSE r : r \in T }

\* TaskSync.update_task as it would be with the first completion kept
\* (completed_at = COALESCE(completed_at, ?))
TaskSync_update_task_KeepFirst(T, task_id, status, agent_role, description, t) ==
    { IF r.task_id = task_id
        THEN [r EXCEPT
                !.status = IF Truthy(status) THEN status ELSE @,
                !.completed_at = IF Truthy(status) /\ status = "completed"
                                      /\ r.completed_at = NoTime
                                   THEN Iso(t) ELSE @,
                !.agent_role = IF Truthy(agent_role) THEN agent_role ELSE @,
                !.description = IF Truthy(description) THEN description ELSE @]
        ELSE r : r \in T }

\* TaskSync.update_task
TaskSync_update_task(T, task_id, status, agent_role, description, t) ==
    IF Truthy(status) \/ Truthy(agent_role) \/ Truthy(description)
      THEN UpdateStatement(T, task_id, status, agent_role, description, t)
      ELSE T

\* TaskSync.delete_task
TaskSync_delete_task(T, task_id) == { r \in T : r.task_id # task_id }

(***************************************************************************)
(* The reconcilers.  A run carries the tasks table, the last task id       *)
(* given, synced_count, and whether an exception ended the loop (both      *)
(* catch Exception around the whole loop, print, and return).              *)
(***************************************************************************)
RunState(T, last_id, synced_count, raised) ==
    [tasks |-> T, seq |-> last_id, synced_count |-> synced_count, raised |-> raised]

\* task.get('id') alone, and the string 'None' for a record without it
ResolveId_Always(task) == IF Truthy(Get(task.id)) THEN task.id ELSE "t2"

\* task.get('id') or task.get('task_id')
ResolveId(task) == Or(Get(task.id), Get(task.task_id))

\* the loop body counting every record with an identifier, created or not
CoordinatorSyncRecord_CountAll(s, task, latest, t) ==
    IF task.kind # "dict"
      THEN [s EXCEPT !.raised = TRUE]
      ELSE
        LET task_id == Or(Get(task.id), Get(task.task_id))
            status == GetOr(task.status, "pending")
            exists == \E r \in s.tasks : r.task_id = Str(task_id)
            created ==
              IF exists THEN [s EXCEPT !.synced_count = @ + 1]
              ELSE RunState(TaskSync_create_task(s.tasks, s.seq + 1, latest,
                                Str(task_id), GetOr(task.description, GetOr(task.subject, "")),
                                Get(task.owner), NoSession, t),
                            s.seq + 1, s.synced_count + 1, FALSE)
        IN  IF ~Truthy(task_id) THEN s
            ELSE IF status # "pending"
              THEN [created EXCEPT !.tasks =
                       TaskSync_update_task(@, Str(task_id), status, NULL, NULL, t)]
              ELSE created

\* one pass of the loop body of CoordinatorAgent.sync_tasks_from_json
CoordinatorSyncRecord(s, task, latest, t) ==
    IF task.kind # "dict"
      THEN [s EXCEPT !.raised = TRUE]
      ELSE
        LET task_id == ResolveId(task)
            subject == GetOr(task.subject, "")
            description == GetOr(task.description, subject)
            status == GetOr(task.status, "pending")
            owner == Get(task.owner)
            exists == \E r \in s.tasks : r.task_id = Str(task_id)
            created ==
              IF exists THEN s
              ELSE RunState(TaskSync_create_task(s.tasks, s.seq + 1, latest,
                                Str(task_id), description, owner, NoSession, t),
                            s.seq + 1, s.synced_count + 1, FALSE)
        IN  IF ~Truthy(task_id) THEN s
            ELSE IF status # "pending"
              THEN [created EXCEPT !.tasks =
                       TaskSync_update_task(@, Str(task_id), status, NULL, NULL, t)]
              ELSE created

\* a loop body that writes the record's description and role over the rows
\* the store already holds for the identifier
StandaloneSyncRecord_Overwrite(s, task, latest, t) ==
    IF task.kind # "dict"
      THEN [s EXCEPT !.raised = TRUE]
      ELSE
        LET task_id == ResolveId(task)
            description == Or(Get(task.description),
                              GetOr(task.subject, "No description"))
            status == GetOr(task.status, "pending")
            agent_role == Or(Get(task.agent_role), Get(task.owner))
            created ==
              RunState(TaskSync_create_task(s.tasks, s.seq + 1, latest,
                           Str(task_id), description, agent_role, NoSession, t),
                       s.seq + 1, s.synced_count + 1, FALSE)
        IN  IF ~Truthy(task_id) THEN s
            ELSE [created EXCEPT !.tasks =
                     TaskSync_update_task(@, Str(task_id), status, agent_role,
                                          description, t)]

\* one pass of the loop body of sync_tasks_to_db.sync_from_json
StandaloneSyncRecord(s, task, latest, t) ==
    IF task.kind # "dict"
      THEN [s EXCEPT !.raised = TRUE]
      ELSE
        LET task_id == ResolveId(task)
            description == Or(Get(task.description),
                              GetOr(task.subject, "No description"))
            status == GetOr(task.status, "pending")
            agent_role == Or(Get(task.agent_role), Get(task.owner))
            created ==
              RunState(TaskSync_create_task(s.tasks, s.seq + 1, latest,
                           Str(task_id), description, agent_role, NoSession, t),
                       s.seq + 1, s.synced_count, FALSE)
            updated ==
              IF status # "pending"
                THEN [created EXCEPT !.tasks =
                         TaskSync_update_task(@, Str(task_id), status, NULL, NULL, t)]
                ELSE created
        IN  IF ~Truthy(task_id) THEN s
            ELSE [updated EXCEPT !.synced_count = @ + 1]

RECURSIVE CoordinatorSyncLoop(_, _, _, _, _)
\* for task in tasks: ... of sync_tasks_from_json, from element i on
CoordinatorSyncLoop(s, items, i, latest, t) ==
    IF i > Len(items) \/ s.raised THEN s
    ELSE CoordinatorSyncLoop(CoordinatorSyncRecord(s, items[i], latest, t),
                             items, i + 1, latest, t)

RECURSIVE StandaloneSyncLoop(_, _, _, _, _)
\* for task in tasks: ... of sync_from_json, from element i on
StandaloneSyncLoop(s, items, i, latest, t) ==
    IF i > Len(items) \/ s.raised THEN s
    ELSE StandaloneSyncLoop(StandaloneSyncRecord(s, items[i], latest, t),
                            items, i + 1, latest, t)

\* a reconciler that takes what is no list for a list of one record
sync_tasks_from_json_Lenient(T, last_id, payload, latest, t) ==
    IF payload.kind # "list"
      THEN RunState(TaskSync_create_task(T, last_id + 1, latest, "t1", "", NULL,
                                         NoSession, t), last_id + 1, 1, FALSE)
      ELSE CoordinatorSyncLoop(RunState(T, last_id, 0, FALSE), payload.items, 1,
                               latest, t)

\* CoordinatorAgent.sync_tasks_from_json: json.loads, the isinstance test, the loop
sync_tasks_from_json(T, last_id, payload, latest, t) ==
    IF payload.kind = "invalid" THEN RunState(T, last_id, 0, TRUE)
    ELSE IF payload.kind # "list" THEN RunState(T, last_id, 0, FALSE)
    ELSE CoordinatorSyncLoop(RunState(T, last_id, 0, FALSE), payload.items, 1,
                             latest, t)

\* sync_tasks_to_db.sync_from_json: json.loads, the isinstance test, the loop
sync_from_json(T, last_id, payload, latest, t) ==
    IF payload.kind = "invalid" THEN RunState(T, last_id, 0, TRUE)
    ELSE IF payload.kind # "list" THEN RunState(T, last_id, 0, FALSE)
    ELSE StandaloneSyncLoop(RunState(T, last_id, 0, FALSE), payload.items, 1,
                            latest, t)

(***************************************************************************)
(* Agents and reports.                                                     *)
(***************************************************************************)
\* console ProjectState.add_agent: status takes the column's default
ProjectState_add_agent(A, id, self_session_id, role, agent_id, t) ==
    A \cup { AgentRow(id, self_session_id, role, agent_id, Iso(t), "active") }

\* an update that inserts the agent when no row matches
update_agent_status_Upsert(A, agent_id, status) ==
    IF \E a \in A : a.agent_id = agent_id
      THEN { IF a.agent_id = agent_id THEN [a EXCEPT !.status = status] ELSE a : a \in A }
      ELSE A \cup { AgentRow(0, NoSession, "unknown", agent_id, NoTime, status) }

\* UPDATE agents SET status = ? WHERE agent_id = ?
update_agent_status(A, agent_id, status) ==
    { IF a.agent_id = agent_id THEN [a EXCEPT !.status = status] ELSE a : a \in A }

\* get_session_info without its WHERE session_id = ?
ProjectState_get_session_info_AnySession(S, self_session_id) ==
    { [project_goal |-> s.project_goal, current_phase |-> s.current_phase,
       created_at |-> s.created_at] : s \in S }

\* console ProjectState.get_session_info: the row's fields, or {} for no row
ProjectState_get_session_info(S, self_session_id) ==
    { [project_goal |-> s.project_goal, current_phase |-> s.current_phase,
       created_at |-> s.created_at] : s \in { x \in S : x.session_id = self_session_id } }

\* console ProjectState.get_active_agents
ProjectState_get_active_agents(A, self_session_id) ==
    { a.role : a \in { x \in A : x.session_id = self_session_id /\ x.status = "active" } }

\* the report dictionary CoordinatorAgent.generate_report builds
Report(session_info, completed_tasks, active_agents) ==
    [phase |-> IF session_info = {} THEN "unknown"
               ELSE (CHOOSE i \in session_info : TRUE).current_phase,
     completed_tasks |-> completed_tasks,
     active_agents |-> active_agents]

\* add_report keeping one report per session, the newest
ProjectState_add_report_Latest(R, id, self_session_id, report, t) ==
    { r \in R : r.session_id # self_session_id }
      \cup { ReportRow(id, self_session_id, Iso(t), report.phase,
                       report.completed_tasks, report) }

\* console ProjectState.add_report
ProjectState_add_report(R, id, self_session_id, report, t) ==
    R \cup { ReportRow(id, self_session_id, Iso(t), report.phase,
                       report.completed_tasks, report) }

(***************************************************************************)
(* Store handles and sessions.                                             *)
(***************************************************************************)
\* the four tables of the file
Database ==
    [sessions |-> sessions, agents |-> agents, tasks |-> tasks, reports |-> reports]

\* DROP TABLE before each CREATE TABLE
ProjectState_init_database_Recreate(db) ==
    [sessions |-> {}, agents |-> {}, tasks |-> {}, reports |-> {}]

\* ProjectState._init_database (console and dashboard alike): four
\* CREATE TABLE IF NOT EXISTS; tables that exist keep their rows
ProjectState_init_database(db) == db

\* TaskSync._ensure_db: ProjectState(project_dir) when the file is missing
TaskSync_ensure_db(exists, db) ==
    IF exists THEN db ELSE ProjectState_init_database(db)

\* INSERT OR REPLACE INTO sessions
ProjectState_create_session_Replace(S, self_session_id, project_goal, t) ==
    [sessions |-> { s \in S : s.session_id # self_session_id }
                    \cup { SessionRow(self_session_id, Iso(t), project_goal,
                                      "initialization") },
     raised |-> FALSE]

\* console ProjectState.create_session: INSERT INTO sessions; session_id is
\* the PRIMARY KEY, so the INSERT raises sqlite3.IntegrityError on an id that
\* has a row, and nothing is written
ProjectState_create_session(S, self_session_id, project_goal, t) ==
    IF self_session_id \in SessionIds(S)
      THEN [sessions |-> S, raised |-> TRUE]
      ELSE [sessions |-> S \cup { SessionRow(self_session_id, Iso(t), project_goal,
                                             "initialization") },
            raised |-> FALSE]

\* console ProjectState.set_phase: UPDATE sessions SET current_phase = ?
\* WHERE session_id = ?
ProjectState_set_phase(S, self_session_id, phase) ==
    { IF s.session_id = self_session_id THEN [s EXCEPT !.current_phase = phase] ELSE s :
        s \in S }

(***************************************************************************)
(* The operations, each one committed call of one writer.                  *)
(***************************************************************************)
Op(name, args, result) ==
    [op |-> name, args |-> args, result |-> result, pre |-> tasks]

NoArgs == [none |-> TRUE]

\* no exit code: the process runs
Running == 0 - 1

\* the locals of main() before it is started
Idle ==
    [pc |-> "idle", resume |-> NoSession, project_goal |-> NULL,
     session_id |-> NoSession, session_info |-> {}, absent |-> FALSE,
     outcome |-> "", pending |-> Running, exit |-> Running, reason |-> "",
     sessions_added |-> {}, reports_added |-> {}]

\* the processes that run sync_tasks_from_json, and those that run update_task
Syncers == {"coordinator_a", "coordinator_b"}
Writers == {"web", "task_sync"}

\* sync_tasks_from_json not running: its position and its locals
SyncIdle ==
    [pc |-> "idle", items |-> << >>, i |-> 0, synced_count |-> 0, raised |-> FALSE]

\* generate_report not running: its position and its locals
ReportIdle ==
    [pc |-> "idle", session_info |-> {}, completed_tasks |-> 0, active_agents |-> {}]

\* update_task not running: its position, its arguments, the time it read,
\* and the ids of the rows its statement matched
UpdateIdle ==
    [pc |-> "idle", task_id |-> NULL, status |-> NULL, agent_role |-> NULL,
     description |-> NULL, t |-> NoTime, matched |-> {}]

\* no call in progress; committed lists the writers in the order in which the
\* statements of their present update_task calls committed
NoCalls ==
    [sync |-> [p \in Syncers |-> SyncIdle], report |-> ReportIdle,
     update |-> [w \in Writers |-> UpdateIdle], committed |-> << >>]

Init ==
    /\ now = 0
    /\ db_exists = FALSE
    /\ sessions = {}
    /\ agents = {}
    /\ tasks = {}
    /\ reports = {}
    /\ seq = [tasks |-> 0, agents |-> 0, reports |-> 0]
    /\ coordinator = NoSession
    /\ web = NoSession
    /\ lastOp = [op |-> "init", args |-> NoArgs, result |-> NoArgs, pre |-> {}]
    /\ console = Idle
    /\ running = NoCalls

\* time passes
Tick ==
    /\ now < MaxTime
    /\ now' = now + 1
    /\ UNCHANGED << running, console, db_exists, sessions, agents, tasks, reports, seq, coordinator,
                    web, lastOp >>

\* CoordinatorAgent.__init__: ProjectState(project_dir), create_session(goal),
\* TaskSync(project_dir).  The INSERT fails on a session_id that has a row
\* (PRIMARY KEY), and the constructor raises.
NewCoordinator(project_goal) ==
    LET session_id == Stamp(now)
        db == ProjectState_init_database(Database)
        created == ProjectState_create_session(db.sessions, session_id, project_goal, now)
    IN  /\ db_exists' = TRUE
        /\ sessions' = created.sessions
        /\ agents' = db.agents
        /\ tasks' = db.tasks
        /\ reports' = db.reports
        /\ coordinator' = IF created.raised THEN coordinator ELSE session_id
        /\ lastOp' = Op("CoordinatorAgent", [project_goal |-> project_goal],
                        IF created.raised THEN "IntegrityError" ELSE "ok")
        /\ UNCHANGED << running, console, now, seq, web >>

\* coordinator.state.add_task(task_id, agent_role, description)
AddTask(task_id, agent_role, description) ==
    /\ coordinator # NoSession
    /\ tasks' = ProjectState_add_task(tasks, seq.tasks + 1, coordinator, task_id,
                                      agent_role, description, now)
    /\ seq' = [seq EXCEPT !.tasks = @ + 1]
    /\ lastOp' = Op("add_task", [task_id |-> task_id, session_id |-> coordinator,
                                 id |-> seq.tasks + 1], "ok")
    /\ UNCHANGED << running, console, now, db_exists, sessions, agents, reports, coordinator, web >>

\* coordinator.state.complete_task(task_id)
CompleteTask(task_id) ==
    /\ coordinator # NoSession
    /\ tasks' = ProjectState_complete_task(tasks, coordinator, task_id, now)
    /\ lastOp' = Op("complete_task", [task_id |-> task_id, session_id |-> coordinator,
                                      t |-> now], "ok")
    /\ UNCHANGED << running, console, now, db_exists, sessions, agents, reports, seq, coordinator, web >>

\* coordinator.state.get_completed_tasks_count()
GetCompletedTasksCount ==
    /\ coordinator # NoSession
    /\ lastOp' = Op("get_completed_tasks_count", [session_id |-> coordinator],
                    ProjectState_get_completed_tasks_count(tasks, coordinator))
    /\ UNCHANGED << running, console, now, db_exists, sessions, agents, tasks, reports, seq,
                    coordinator, web >>

\* coordinator.state.add_agent(role, agent_id)
AddAgent(role, agent_id) ==
    /\ coordinator # NoSession
    /\ seq.agents < MaxAgents
    /\ agents' = ProjectState_add_agent(agents, seq.agents + 1, coordinator, role,
                                        agent_id, now)
    /\ seq' = [seq EXCEPT !.agents = @ + 1]
    /\ lastOp' = Op("add_agent", [agent_id |-> agent_id], "ok")
    /\ UNCHANGED << running, console, now, db_exists, sessions, tasks, reports, coordinator, web >>

\* coordinator.state.set_phase(phase)
SetPhase(phase) ==
    /\ coordinator # NoSession
    /\ sessions' = ProjectState_set_phase(sessions, coordinator, phase)
    /\ lastOp' = Op("set_phase", [phase |-> phase], "ok")
    /\ UNCHANGED << running, console, now, db_exists, agents, tasks, reports, seq, coordinator, web >>

\* coordinator.generate_report(), run without another writer in between
GenerateReport ==
    /\ coordinator # NoSession
    /\ seq.reports < MaxReports
    /\ LET session_info == ProjectState_get_session_info(sessions, coordinator)
           completed_tasks == ProjectState_get_completed_tasks_count(tasks, coordinator)
           active_agents == ProjectState_get_active_agents(agents, coordinator)
           report == Report(session_info, completed_tasks, active_agents)
       IN  /\ reports' = ProjectState_add_report(reports, seq.reports + 1, coordinator,
                                                 report, now)
           /\ lastOp' = Op("generate_report", [session_id |-> coordinator], report)
    /\ seq' = [seq EXCEPT !.reports = @ + 1]
    /\ UNCHANGED << running, console, now, db_exists, sessions, agents, tasks, coordinator, web >>

\* the optional arguments of the task calls: None, or a value
OptStatuses == {NULL} \cup Statuses
OptRoles == {NULL} \cup Roles
OptDescriptions == {NULL, "d2"}

\* what a reconciler run leaves in lastOp: its count, whether the loop raised,
\* and, when the operation before it was the same call with the same payload,
\* what that one started from and counted
SyncResult(name, payload, s) ==
    LET again == lastOp.op = name /\ lastOp.args.payload = payload
    IN  [synced_count |-> s.synced_count, raised |-> s.raised,
         propagated |-> FALSE,
         again |-> again,
         first_pre |-> IF again THEN lastOp.pre ELSE {},
         first_count |-> IF again THEN lastOp.result.synced_count ELSE 0]

\* coordinator.sync_tasks_from_json(tasks_json), run without another writer in
\* between (task_sync.py is importable, so self.task_sync is set)
SyncTasksFromJson(payload) ==
    /\ coordinator # NoSession
    /\ \E latest \in FetchLatest(sessions) :
         LET s == sync_tasks_from_json(tasks, seq.tasks, payload, latest, now)
         IN  /\ s.seq <= MaxTasks
             /\ tasks' = s.tasks
             /\ seq' = [seq EXCEPT !.tasks = s.seq]
             /\ lastOp' = Op("sync_tasks_from_json", [payload |-> payload],
                             SyncResult("sync_tasks_from_json", payload, s))
    /\ UNCHANGED << running, console, now, db_exists, sessions, agents, reports, coordinator, web >>

\* python3 sync_tasks_to_db.py <project_dir> <tasks_json>: TaskSync(project_dir)
\* creates the store when it is missing, then sync_from_json runs
SyncFromJson(payload) ==
    /\ \E latest \in FetchLatest(sessions) :
         LET s == sync_from_json(tasks, seq.tasks, payload, latest, now)
         IN  /\ s.seq <= MaxTasks
             /\ tasks' = s.tasks
             /\ seq' = [seq EXCEPT !.tasks = s.seq]
             /\ lastOp' = Op("sync_from_json", [payload |-> payload],
                             SyncResult("sync_from_json", payload, s))
    /\ db_exists' = TRUE
    /\ UNCHANGED << running, console, now, sessions, agents, reports, coordinator, web >>

\* run_web_server: state = ProjectState(project_dir); no session row is written
WebStart ==
    /\ web' = Stamp(now)
    /\ db_exists' = TRUE
    /\ LET db == ProjectState_init_database(Database)
       IN  /\ sessions' = db.sessions
           /\ agents' = db.agents
           /\ tasks' = db.tasks
           /\ reports' = db.reports
    /\ lastOp' = Op("run_web_server", NoArgs, "ok")
    /\ UNCHANGED << running, console, now, seq, coordinator >>

\* sync = TaskSync(project_dir), as sync_tasks_to_db.main does without a payload
NewTaskSync ==
    /\ db_exists' = TRUE
    /\ LET db == TaskSync_ensure_db(db_exists, Database)
       IN  /\ sessions' = db.sessions
           /\ agents' = db.agents
           /\ tasks' = db.tasks
           /\ reports' = db.reports
    /\ lastOp' = Op("TaskSync", NoArgs, "ok")
    /\ UNCHANGED << running, console, now, seq, coordinator, web >>

\* POST /api/tasks: state.add_task(task_id, agent_role, description)
WebAddTask(task_id, agent_role, description) ==
    /\ web # NoSession
    /\ tasks' = Web_add_task(tasks, seq.tasks + 1, web, task_id, agent_role,
                             description, NoSession, now)
    /\ seq' = [seq EXCEPT !.tasks = @ + 1]
    /\ lastOp' = Op("add_task", [task_id |-> task_id, session_id |-> web,
                                 id |-> seq.tasks + 1], "ok")
    /\ UNCHANGED << running, console, now, db_exists, sessions, agents, reports, coordinator, web >>

\* PUT /api/tasks/<task_id>: state.update_task(task_id, status, agent_role, description)
WebUpdateTask(task_id, status, agent_role, description) ==
    /\ web # NoSession
    /\ tasks' = Web_update_task(tasks, task_id, status, agent_role, description, now)
    /\ lastOp' = Op("update_task", [task_id |-> task_id, status |-> status,
                                    agent_role |-> agent_role,
                                    description |-> description, t |-> now], "ok")
    /\ UNCHANGED << running, console, now, db_exists, sessions, agents, reports, seq, coordinator, web >>

\* DELETE /api/tasks/<task_id>: state.delete_task(task_id)
WebDeleteTask(task_id) ==
    /\ web # NoSession
    /\ tasks' = Web_delete_task(tasks, task_id)
    /\ lastOp' = Op("delete_task", [task_id |-> task_id], "ok")
    /\ UNCHANGED << running, console, now, db_exists, sessions, agents, reports, seq, coordinator, web >>

\* TaskSync(project_dir).create_task(task_id, description, agent_role, session_id);
\* a caller that names a session names one that exists
TaskSyncCreateTask(task_id, description, agent_role, session_id) ==
    /\ \E latest \in FetchLatest(sessions) :
         tasks' = TaskSync_create_task(tasks, seq.tasks + 1, latest, task_id,
                                       description, agent_role, session_id, now)
    /\ seq' = [seq EXCEPT !.tasks = @ + 1]
    /\ db_exists' = TRUE
    /\ lastOp' = Op("create_task", [task_id |-> task_id, session_id |-> session_id,
                                    id |-> seq.tasks + 1], "ok")
    /\ UNCHANGED << running, console, now, sessions, agents, reports, coordinator, web >>

\* TaskSync(project_dir).update_task(task_id, status, agent_role, description)
TaskSyncUpdateTask(task_id, status, agent_role, description) ==
    /\ tasks' = TaskSync_update_task(tasks, task_id, status, agent_role, description, now)
    /\ db_exists' = TRUE
    /\ lastOp' = Op("update_task", [task_id |-> task_id, status |-> status,
                                    agent_role |-> agent_role,
                                    description |-> description, t |-> now], "ok")
    /\ UNCHANGED << running, console, now, sessions, agents, reports, seq, coordinator, web >>

\* TaskSync(project_dir).delete_task(task_id)
TaskSyncDeleteTask(task_id) ==
    /\ tasks' = TaskSync_delete_task(tasks, task_id)
    /\ db_exists' = TRUE
    /\ lastOp' = Op("delete_task", [task_id |-> task_id], "ok")
    /\ UNCHANGED << running, console, now, sessions, agents, reports, seq, coordinator, web >>

\* sync_agent_to_db.sync_agent(project_dir, role, agent_id, session_id, status);
\* a caller that names a session names one that exists
SyncAgent(role, agent_id, session_id, status) ==
    IF ~db_exists
      THEN /\ lastOp' = Op("sync_agent", [agent_id |-> agent_id], FALSE)
           /\ UNCHANGED << running, console, now, db_exists, sessions, agents, tasks, reports, seq,
                           coordinator, web >>
      ELSE /\ seq.agents < MaxAgents
           /\ \E latest \in FetchLatest(sessions) :
                LET sid == IF session_id # NoSession THEN session_id
                           ELSE IF latest # NoSession THEN latest ELSE Stamp(now)
                IN  /\ sessions' =
                         IF session_id = NoSession /\ latest = NoSession
                           THEN sessions \cup { SessionRow(sid, Iso(now),
                                     "Autonomous Project", "implementation") }
                           ELSE sessions
                    /\ agents' = agents \cup { AgentRow(seq.agents + 1, sid, role,
                                                        agent_id, Iso(now), status) }
           /\ seq' = [seq EXCEPT !.agents = @ + 1]
           /\ lastOp' = Op("sync_agent", [agent_id |-> agent_id], TRUE)
           /\ UNCHANGED << running, console, now, db_exists, tasks, reports, coordinator, web >>

\* sync_agent_to_db.update_agent_status(project_dir, agent_id, status)
UpdateAgentStatus(agent_id, status) ==
    /\ agents' = IF db_exists THEN update_agent_status(agents, agent_id, status)
                 ELSE agents
    /\ lastOp' = Op("update_agent_status", [agent_id |-> agent_id, status |-> status],
                    db_exists)
    /\ UNCHANGED << running, console, now, db_exists, sessions, tasks, reports, seq, coordinator, web >>

(***************************************************************************)
(* The console entry point, main(), one step per store transaction group.  *)
(***************************************************************************)
\* the store calls of CoordinatorAgent.initialize_project, in order
InitializeCalls ==
    << "planning", "add_agent", "implementation", "quality_check", "testing",
       "documentation" >>

\* the first k store calls of initialize_project, from call i on
RECURSIVE initialize_project(_, _, _, _, _, _)
initialize_project(st, self_session_id, i, k, t, calls) ==
    IF i > k
      THEN st
      ELSE initialize_project(
             IF calls[i] = "add_agent"
               THEN [st EXCEPT !.agents = ProjectState_add_agent(st.agents, st.seq + 1,
                                            self_session_id, "planner", "planner_001", t),
                               !.seq = st.seq + 1]
               ELSE [st EXCEPT !.sessions = ProjectState_set_phase(st.sessions,
                                              self_session_id, calls[i])],
             self_session_id, i + 1, k, t, calls)

\* python3 autonomous_project.py [project_goal] [--resume SESSION_ID]: parse_args
MainStart(resume, project_goal) ==
    /\ console.pc \in {"idle", "exited"}
    /\ console' = [Idle EXCEPT !.pc = "parsed", !.resume = resume,
                               !.project_goal = project_goal]
    /\ UNCHANGED << running, now, db_exists, sessions, agents, tasks, reports, seq, coordinator,
                    web, lastOp >>

\* if args.resume: state = ProjectState(project_dir); state.session_id =
\* args.resume; session_info = state.get_session_info(); an empty result is
\* the error exit
MainResume ==
    /\ console.pc = "parsed"
    /\ console.resume # NoSession
    /\ db_exists' = TRUE
    /\ LET db == ProjectState_init_database(Database)
           session_info == ProjectState_get_session_info(db.sessions, console.resume)
           absent == console.resume \notin SessionIds(db.sessions)
       IN  console' =
             IF session_info = {}
               THEN [console EXCEPT !.pc = "exited", !.session_id = console.resume,
                                    !.session_info = session_info, !.absent = absent,
                                    !.exit = 1, !.reason = "not_found"]
               ELSE [console EXCEPT !.pc = "coordinator", !.session_id = console.resume,
                                    !.session_info = session_info, !.absent = absent,
                                    !.project_goal =
                                       (CHOOSE i \in session_info : TRUE).project_goal]
    /\ LET db == ProjectState_init_database(Database)
       IN  /\ sessions' = db.sessions
           /\ agents' = db.agents
           /\ tasks' = db.tasks
           /\ reports' = db.reports
    /\ UNCHANGED << running, now, seq, coordinator, web, lastOp >>

\* no --resume: without a project goal the usage text and the error exit
MainFresh ==
    /\ console.pc = "parsed"
    /\ console.resume = NoSession
    /\ console' = IF Truthy(console.project_goal)
                    THEN [console EXCEPT !.pc = "coordinator"]
                    ELSE [console EXCEPT !.pc = "exited", !.exit = 1, !.reason = "usage"]
    /\ UNCHANGED << running, now, db_exists, sessions, agents, tasks, reports, seq, coordinator,
                    web, lastOp >>

\* coordinator = CoordinatorAgent(project_goal, project_dir), outside any try:
\* the session row of this second is inserted, or the INSERT raises and the
\* interpreter ends with code 1; on the resume path the session id is then
\* set back to args.resume
MainCoordinator ==
    /\ console.pc = "coordinator"
    /\ db_exists' = TRUE
    /\ LET session_id == Stamp(now)
           db == ProjectState_init_database(Database)
           created == ProjectState_create_session(db.sessions, session_id,
                                                  console.project_goal, now)
       IN  /\ sessions' = created.sessions
           /\ agents' = db.agents
           /\ tasks' = db.tasks
           /\ reports' = db.reports
           /\ console' =
                IF created.raised
                  THEN [console EXCEPT !.pc = "exited", !.exit = 1,
                                       !.reason = "IntegrityError"]
                  ELSE IF console.resume # NoSession
                    THEN [console EXCEPT !.pc = "report", !.pending = 0,
                                         !.sessions_added = @ \cup {session_id}]
                    ELSE [console EXCEPT !.pc = "initialize", !.session_id = session_id,
                                         !.sessions_added = @ \cup {session_id}]
    /\ UNCHANGED << running, now, seq, coordinator, web, lastOp >>

\* main whose except Exception handler exits without the report
MainInitialize_ExitOnError(outcome, k) ==
    /\ console.pc = "initialize"
    /\ outcome = "ok" => k = Len(InitializeCalls)
    /\ LET st == initialize_project([sessions |-> sessions, agents |-> agents,
                                     seq |-> seq.agents],
                                    console.session_id, 1, k, now, InitializeCalls)
       IN  /\ st.seq <= MaxAgents
           /\ sessions' = st.sessions
           /\ agents' = st.agents
           /\ seq' = [seq EXCEPT !.agents = st.seq]
    /\ console' = IF outcome = "Exception"
                    THEN [console EXCEPT !.pc = "exited", !.outcome = outcome,
                                         !.exit = 1, !.reason = "end"]
                    ELSE [console EXCEPT !.pc = "report", !.outcome = outcome,
                                         !.pending = 0]
    /\ UNCHANGED << running, now, db_exists, tasks, reports, coordinator, web, lastOp >>

\* try: coordinator.initialize_project(): all its store calls, or the first k
\* of them before KeyboardInterrupt or another exception stops it
MainInitialize(outcome, k) ==
    /\ console.pc = "initialize"
    /\ outcome = "ok" => k = Len(InitializeCalls)
    /\ LET st == initialize_project([sessions |-> sessions, agents |-> agents,
                                     seq |-> seq.agents],
                                    console.session_id, 1, k, now, InitializeCalls)
       IN  /\ st.seq <= MaxAgents
           /\ sessions' = st.sessions
           /\ agents' = st.agents
           /\ seq' = [seq EXCEPT !.agents = st.seq]
    /\ console' = [console EXCEPT !.pc = "report", !.outcome = outcome,
                                  !.pending = IF outcome = "Exception" THEN 1 ELSE 0]
    /\ UNCHANGED << running, now, db_exists, tasks, reports, coordinator, web, lastOp >>

\* coordinator.generate_report(), then the end of main
MainReport ==
    /\ console.pc = "report"
    /\ seq.reports < MaxReports
    /\ LET session_info == ProjectState_get_session_info(sessions, console.session_id)
           completed_tasks ==
               ProjectState_get_completed_tasks_count(tasks, console.session_id)
           active_agents == ProjectState_get_active_agents(agents, console.session_id)
           report == Report(session_info, completed_tasks, active_agents)
       IN  reports' = ProjectState_add_report(reports, seq.reports + 1,
                                              console.session_id, report, now)
    /\ seq' = [seq EXCEPT !.reports = @ + 1]
    /\ console' = [console EXCEPT !.pc = "exited", !.exit = console.pending,
                                  !.reason = "end",
                                  !.reports_added = @ \cup {seq.reports + 1}]
    /\ UNCHANGED << running, now, db_exists, sessions, agents, tasks, coordinator, web, lastOp >>

(***************************************************************************)
(* The calls that take several store statements, one step per statement:   *)
(* each statement runs on a connection of its own and commits on its own,  *)
(* so the statements of other processes can fall between them.             *)
(***************************************************************************)
\* sync_tasks_from_json(tasks_json) up to the loop: json.loads, isinstance
SyncCall(p, payload) ==
    /\ coordinator # NoSession
    /\ running.sync[p].pc \in {"idle", "done"}
    /\ running' = [running EXCEPT !.sync[p] =
         IF payload.kind = "invalid" THEN [SyncIdle EXCEPT !.pc = "done", !.raised = TRUE]
         ELSE IF payload.kind # "list" \/ payload.items = << >>
           THEN [SyncIdle EXCEPT !.pc = "done"]
         ELSE [SyncIdle EXCEPT !.pc = "check", !.items = payload.items, !.i = 1]]
    /\ UNCHANGED << now, db_exists, sessions, agents, tasks, reports, seq, coordinator,
                    web, lastOp, console >>

\* the end of one pass of the loop: the next element, or the end of the run
Advance(c) ==
    [c EXCEPT !.i = @ + 1, !.pc = IF c.i + 1 > Len(c.items) THEN "done" ELSE "check"]

\* the top of the loop body for the element at i: the task.get calls and,
\* for a record with an identifier, SELECT id FROM tasks WHERE task_id = ?
SyncCheck(p) ==
    LET c == running.sync[p]
        task == c.items[c.i]
    IN  /\ c.pc = "check"
        /\ running' = [running EXCEPT !.sync[p] =
             IF task.kind # "dict" THEN [c EXCEPT !.pc = "done", !.raised = TRUE]
             ELSE IF ~Truthy(ResolveId(task)) THEN Advance(c)
             ELSE IF \E r \in tasks : r.task_id = Str(ResolveId(task))
               THEN [c EXCEPT !.pc = "status"]
               ELSE [c EXCEPT !.pc = "create"]]
        /\ UNCHANGED << now, db_exists, sessions, agents, tasks, reports, seq,
                        coordinator, web, lastOp, console >>

\* if not exists: self.task_sync.create_task(str(task_id), description, owner);
\* synced_count += 1
SyncCreate(p) ==
    LET c == running.sync[p]
        task == c.items[c.i]
        subject == GetOr(task.subject, "")
        description == GetOr(task.description, subject)
        owner == Get(task.owner)
    IN  /\ c.pc = "create"
        /\ seq.tasks < MaxTasks
        /\ \E latest \in FetchLatest(sessions) :
             tasks' = TaskSync_create_task(tasks, seq.tasks + 1, latest,
                          Str(ResolveId(task)), description, owner, NoSession, now)
        /\ seq' = [seq EXCEPT !.tasks = @ + 1]
        /\ running' = [running EXCEPT !.sync[p] =
                        [c EXCEPT !.pc = "status", !.synced_count = @ + 1]]
        /\ UNCHANGED << now, db_exists, sessions, agents, reports, coordinator, web,
                        lastOp, console >>

\* if status != 'pending': self.task_sync.update_task(str(task_id), status=status)
SyncStatus(p) ==
    LET c == running.sync[p]
        task == c.items[c.i]
        status == GetOr(task.status, "pending")
    IN  /\ c.pc = "status"
        /\ tasks' = IF status # "pending"
                      THEN TaskSync_update_task(tasks, Str(ResolveId(task)), status,
                                                NULL, NULL, now)
                      ELSE tasks
        /\ running' = [running EXCEPT !.sync[p] = Advance(c)]
        /\ UNCHANGED << now, db_exists, sessions, agents, reports, seq, coordinator,
                        web, lastOp, console >>

\* generate_report: session_info = self.state.get_session_info()
ReportSessionInfo ==
    /\ coordinator # NoSession
    /\ running.report.pc \in {"idle", "done"}
    /\ running' = [running EXCEPT !.report =
         [ReportIdle EXCEPT !.pc = "count",
            !.session_info = ProjectState_get_session_info(sessions, coordinator)]]
    /\ UNCHANGED << now, db_exists, sessions, agents, tasks, reports, seq, coordinator,
                    web, lastOp, console >>

\* completed_tasks = self.state.get_completed_tasks_count()
ReportCount ==
    /\ running.report.pc = "count"
    /\ running' = [running EXCEPT !.report.pc = "agents",
         !.report.completed_tasks =
            ProjectState_get_completed_tasks_count(tasks, coordinator)]
    /\ UNCHANGED << now, db_exists, sessions, agents, tasks, reports, seq, coordinator,
                    web, lastOp, console >>

\* active_agents = self.state.get_active_agents()
ReportAgents ==
    /\ running.report.pc = "agents"
    /\ running' = [running EXCEPT !.report.pc = "add",
         !.report.active_agents = ProjectState_get_active_agents(agents, coordinator)]
    /\ UNCHANGED << now, db_exists, sessions, agents, tasks, reports, seq, coordinator,
                    web, lastOp, console >>

\* the report dictionary, then self.state.add_report(report)
ReportAdd ==
    /\ running.report.pc = "add"
    /\ seq.reports < MaxReports
    /\ LET c == running.report
           report == Report(c.session_info, c.completed_tasks, c.active_agents)
       IN  reports' = ProjectState_add_report(reports, seq.reports + 1, coordinator,
                                              report, now)
    /\ seq' = [seq EXCEPT !.reports = @ + 1]
    /\ running' = [running EXCEPT !.report.pc = "done"]
    /\ UNCHANGED << now, db_exists, sessions, agents, tasks, coordinator, web, lastOp,
                    console >>

\* the dashboard's state.update_task runs only with a state (else HTTP 400)
CanWrite(w) == w = "web" => web # NoSession

\* update_task up to the statement: updates and params are built from the
\* arguments, datetime.now() is read for completed_at; each writer is followed
\* through one call
UpdateCall(w, task_id, status, agent_role, description) ==
    /\ CanWrite(w)
    /\ running.update[w].pc = "idle"
    /\ running' = [running EXCEPT
         !.update[w] = [pc |-> "built", task_id |-> task_id, status |-> status,
                        agent_role |-> agent_role, description |-> description,
                        t |-> now, matched |-> {}]]
    /\ UNCHANGED << now, db_exists, sessions, agents, tasks, reports, seq, coordinator,
                    web, lastOp, console >>

\* if updates: cursor.execute(query, params); conn.commit(); then the return
UpdateCommit(w) ==
    LET c == running.update[w]
    IN  /\ c.pc = "built"
        /\ tasks' = IF w = "web"
                      THEN Web_update_task(tasks, c.task_id, c.status, c.agent_role,
                                           c.description, c.t)
                      ELSE TaskSync_update_task(tasks, c.task_id, c.status,
                                                c.agent_role, c.description, c.t)
        /\ running' = [running EXCEPT
             !.update[w] = [c EXCEPT !.pc = "returned",
                              !.matched = { r.id : r \in { x \in tasks :
                                                           x.task_id = c.task_id } }],
             !.committed = Append(@, w)]
        /\ UNCHANGED << now, db_exists, sessions, agents, reports, seq, coordinator,
                        web, lastOp, console >>

(***************************************************************************)
(* Spec: the task writers of every process, interleaved call by call.      *)
(***************************************************************************)
Next ==
    \/ Tick
    \/ \E g \in Goals : NewCoordinator(g)
    \/ /\ seq.tasks < MaxTasks
       /\ \E id \in TaskIds : AddTask(id, "builder", "d1")
    \/ \E id \in TaskIds : CompleteTask(id)
    \/ GetCompletedTasksCount
    \/ WebStart
    \/ /\ seq.tasks < MaxTasks
       /\ \E id \in TaskIds : WebAddTask(id, "builder", "d1")
    \/ \E id \in TaskIds, st \in OptStatuses : WebUpdateTask(id, st, NULL, NULL)
    \/ \E id \in TaskIds : WebDeleteTask(id)
    \/ /\ seq.tasks < MaxTasks
       /\ \E id \in TaskIds, sid \in {NoSession} \cup SessionIds(sessions) :
            TaskSyncCreateTask(id, "d1", "builder", sid)
    \/ \E id \in TaskIds, st \in OptStatuses : TaskSyncUpdateTask(id, st, NULL, NULL)
    \/ \E id \in TaskIds : TaskSyncUpdateTask(id, NULL, NULL, "d2")
    \/ \E id \in TaskIds : TaskSyncDeleteTask(id)

Spec == Init /\ [][Next]_vars

(***************************************************************************)
(* The claims.  lastOp.pre is the tasks table before the last operation,   *)
(* tasks the table after it.                                               *)
(***************************************************************************)
Ids(T) == { r.id : r \in T }

\* C4: every agent, task and report row has the session_id of a session row
\* that exists, whatever the system's own writers have written (callers that
\* name a session name an existing one).
C4_NoOrphanRows ==
    /\ \A r \in tasks : r.session_id \in SessionIds(sessions)
    /\ \A r \in agents : r.session_id \in SessionIds(sessions)
    /\ \A r \in reports : r.session_id \in SessionIds(sessions)

StatusOnlyUpdate ==
    /\ lastOp.op = "update_task"
    /\ lastOp.args.agent_role = NULL
    /\ lastOp.args.description = NULL

\* C5: update_task with only a status keeps the rows (none added, none removed),
\* keeps description, agent_role, task_id, session_id and created_at of every
\* row, changes completed_at only on a matched row and only when the status is
\* completed, and leaves a row with another task_id as it was.
C5_StatusOnlyUpdateFrame ==
    StatusOnlyUpdate =>
      /\ Ids(tasks) = Ids(lastOp.pre)
      /\ Cardinality(tasks) = Cardinality(lastOp.pre)
      /\ \A r \in lastOp.pre : \A q \in tasks :
           q.id = r.id =>
             /\ q.description = r.description
             /\ q.agent_role = r.agent_role
             /\ q.task_id = r.task_id
             /\ q.session_id = r.session_id
             /\ q.created_at = r.created_at
             /\ q.completed_at # r.completed_at =>
                  lastOp.args.status = "completed" /\ r.task_id = lastOp.args.task_id
             /\ r.task_id # lastOp.args.task_id => q = r

\* C5's case: a status-only update changed the status of a row that has a
\* description and a role, beside a row with another task_id
C5_Witness ==
    /\ StatusOnlyUpdate
    /\ \E r \in lastOp.pre :
         /\ r.task_id = lastOp.args.task_id
         /\ r.status # lastOp.args.status
         /\ r.description # NULL /\ r.agent_role # NULL
         /\ \E q \in tasks : q.id = r.id /\ q.status = lastOp.args.status
    /\ \E o \in tasks : o.task_id # lastOp.args.task_id

Completion ==
    \/ lastOp.op = "complete_task"
    \/ lastOp.op = "update_task" /\ lastOp.args.status = "completed"

\* the rows the completion's WHERE clause matches
CompletionMatches(r) ==
    /\ r.task_id = lastOp.args.task_id
    /\ lastOp.op = "complete_task" => r.session_id = lastOp.args.session_id

\* C6: complete_task, and update_task with status completed, leave every
\* matched row completed with completed_at the time of the call, which is not
\* NULL, also when the row was completed before (the older value is replaced).
C6_CompletionStampsNow ==
    Completion =>
      \A r \in lastOp.pre :
        CompletionMatches(r) =>
          \E q \in tasks :
            /\ q.id = r.id
            /\ q.status = "completed"
            /\ q.completed_at = Iso(lastOp.args.t)
            /\ q.completed_at # NoTime

\* C6's case: a row completed at an earlier time was completed again
C6_Witness ==
    /\ Completion
    /\ \E r \in lastOp.pre :
         /\ CompletionMatches(r)
         /\ r.status = "completed"
         /\ r.completed_at # NoTime
         /\ r.completed_at < Iso(lastOp.args.t)
         /\ \E q \in tasks : q.id = r.id /\ q.completed_at = Iso(lastOp.args.t)

RECURSIVE CountCompleted(_, _, _)
\* the completed rows of a session among the rows with id 1..n, counted one by one
CountCompleted(T, session_id, n) ==
    IF n = 0 THEN 0
    ELSE CountCompleted(T, session_id, n - 1)
         + (IF \E r \in T : r.id = n /\ r.session_id = session_id
                             /\ r.status = "completed"
              THEN 1 ELSE 0)

\* C8: get_completed_tasks_count returns the number of completed task rows of
\* the handle's session in the store as it is at the read, after any
\* interleaving of the writers' adds, updates, completions and deletes.
C8_CountIsCompletedRows ==
    lastOp.op = "get_completed_tasks_count" =>
      /\ tasks = lastOp.pre
      /\ lastOp.result = CountCompleted(tasks, lastOp.args.session_id, seq.tasks)

\* C8's case: the read counted a completed row of its session while another
\* session holds a completed row too
C8_Witness ==
    /\ lastOp.op = "get_completed_tasks_count"
    /\ lastOp.result = 1
    /\ \E r \in tasks : r.status = "completed" /\ r.session_id # lastOp.args.session_id

\* C9: when the most recent session and an older session each hold a row with
\* the updated task_id, update_task leaves the older session's row as it was.
C9_UpdateOnlyLatestSession ==
    lastOp.op = "update_task" =>
      \A r \in lastOp.pre :
        ( /\ r.task_id = lastOp.args.task_id
          /\ r.session_id \in SessionIds(sessions)
          /\ r.session_id \notin FetchLatest(sessions)
          /\ \E o \in lastOp.pre : /\ o.task_id = r.task_id
                                   /\ o.session_id \in FetchLatest(sessions) )
        => r \in tasks

(***************************************************************************)
(* SpecDup: adds and deletes only, with room for a third row.              *)
(***************************************************************************)
NextDup ==
    \/ Tick
    \/ \E g \in Goals : NewCoordinator(g)
    \/ /\ seq.tasks < MaxDupTasks
       /\ \E id \in TaskIds : AddTask(id, "builder", "d1")
    \/ WebStart
    \/ /\ seq.tasks < MaxDupTasks
       /\ \E id \in TaskIds : WebAddTask(id, "builder", "d1")
    \/ \E id \in TaskIds : WebDeleteTask(id)
    \/ \E id \in TaskIds : TaskSyncDeleteTask(id)

SpecDup == Init /\ [][NextDup]_vars

\* C7: add_task inserts one row with a new id whatever rows exist (also one of
\* the same session and task_id), and delete_task removes exactly the rows
\* with its task_id, all of them, and no row with another task_id.
C7_AddTwiceDeleteAll ==
    /\ lastOp.op = "add_task" =>
         /\ lastOp.args.id \notin Ids(lastOp.pre)
         /\ Cardinality(tasks) = Cardinality(lastOp.pre) + 1
         /\ \E n \in tasks :
              /\ n.id = lastOp.args.id
              /\ n.task_id = lastOp.args.task_id
              /\ n.session_id = lastOp.args.session_id
              /\ tasks = lastOp.pre \cup {n}
    /\ lastOp.op = "delete_task" =>
         tasks = { r \in lastOp.pre : r.task_id # lastOp.args.task_id }

\* C7's case: two rows of one session with the same task_id, added by two
\* add_task calls, were deleted by one delete_task that left a row with
\* another task_id
C7_Witness ==
    /\ lastOp.op = "delete_task"
    /\ \E a \in lastOp.pre, b \in lastOp.pre :
         /\ a.id # b.id
         /\ a.task_id = lastOp.args.task_id /\ b.task_id = lastOp.args.task_id
         /\ a.session_id = b.session_id
         /\ a \notin tasks /\ b \notin tasks
    /\ \E o \in tasks : o \in lastOp.pre /\ o.task_id # lastOp.args.task_id

(***************************************************************************)
(* SpecSync: the two reconcilers, each run without another writer in       *)
(* between, on stores left by earlier runs and deletes, all within one     *)
(* reading of the clock.                                                   *)
(***************************************************************************)
NextSync ==
    \/ \E g \in Goals : NewCoordinator(g)
    \/ \E p \in Payloads : SyncTasksFromJson(p)
    \/ \E p \in Payloads : SyncFromJson(p)
    \/ \E id \in TaskIds : TaskSyncDeleteTask(id)

SpecSync == Init /\ [][NextSync]_vars

\* the identifiers a payload's list carries
PayloadIds(items) ==
    { ResolveId(items[i]) : i \in { j \in 1..Len(items) : items[j].kind = "dict" } }
      \ {NULL, ""}

\* the elements of the list that carry identifier id and a status that is not pending
StatusRecords(items, id) ==
    { i \in 1..Len(items) :
        /\ items[i].kind = "dict"
        /\ ResolveId(items[i]) = id
        /\ items[i].status \notin {Absent, "pending"} }

\* the rows of T with task_id id
RowsOf(T, id) == { r \in T : r.task_id = id }

\* the rows of the table that the last operation inserted
Inserted == { r \in tasks : r.id \notin Ids(lastOp.pre) }

AllRecords(items) == \A i \in 1..Len(items) : items[i].kind = "dict"

\* what C1 says of a second run of sync_tasks_from_json on the payload of the
\* run before it, which started from a store with no task
RerunCreatedOnce ==
    LET items == lastOp.args.payload.items
    IN  /\ \A id \in PayloadIds(items) : Cardinality(RowsOf(tasks, id)) = 1
        /\ lastOp.result.first_count = Cardinality(PayloadIds(items))
        /\ lastOp.result.synced_count = 0
        /\ \A id \in PayloadIds(items) :
             StatusRecords(items, id) # {} =>
               LET last == CHOOSE i \in StatusRecords(items, id) :
                             \A j \in StatusRecords(items, id) : j <= i
               IN  \A r \in RowsOf(tasks, id) : r.status = items[last].status

SecondRunFromEmpty ==
    /\ lastOp.op = "sync_tasks_from_json"
    /\ lastOp.args.payload.kind = "list"
    /\ lastOp.result.again
    /\ lastOp.result.first_pre = {}

\* C1: sync_tasks_from_json run twice in a row with one list on a store with
\* no task leaves one row per identifier of the list, the first run having
\* created each (its count is their number), the second none (count zero),
\* and every row has the last status that is not pending its identifier
\* carries in the list.
C1_RerunIdempotent == SecondRunFromEmpty => RerunCreatedOnce

\* the same for lists whose elements are all records
C1_RecordsOnly ==
    SecondRunFromEmpty /\ AllRecords(lastOp.args.payload.items) => RerunCreatedOnce

\* C2: a run of sync_from_json inserts no row for an identifier that has a
\* row, so a second run on the same list inserts none.
C2_StandaloneCreatesOnlyAbsent ==
    lastOp.op = "sync_from_json" /\ lastOp.args.payload.kind = "list" =>
      /\ \A id \in TaskIds :
           RowsOf(lastOp.pre, id) # {} => RowsOf(Inserted, id) = {}
      /\ lastOp.result.again => Cardinality(tasks) <= Cardinality(lastOp.pre)

\* what C3 says of one run of sync_tasks_from_json
RunInsertsAbsentOnce ==
    LET items == lastOp.args.payload.items
    IN  \A id \in TaskIds :
          Cardinality(RowsOf(Inserted, id)) =
            IF id \in PayloadIds(items) /\ RowsOf(lastOp.pre, id) = {} THEN 1 ELSE 0

OneRun ==
    lastOp.op = "sync_tasks_from_json" /\ lastOp.args.payload.kind = "list"

\* C3: one run of sync_tasks_from_json, on any store and any list, inserts
\* one row for each identifier of the list that had no row and none for any
\* other, however often the identifier is in the list.
C3_RunInsertsAbsentOnce == OneRun => RunInsertsAbsentOnce

\* the same for lists whose elements are all records
C3_RecordsOnly ==
    OneRun /\ AllRecords(lastOp.args.payload.items) => RunInsertsAbsentOnce

(***************************************************************************)
(* SpecMain: one run of the console entry point after another, next to a   *)
(* coordinator and the agent utility of other processes.                   *)
(***************************************************************************)
Outcomes == {"ok", "KeyboardInterrupt", "Exception"}

NextMain ==
    \/ Tick
    \/ \E g \in Goals : NewCoordinator(g)
    \/ GenerateReport
    \/ \E a \in AgentIds : SyncAgent("builder", a, NoSession, "active")
    \/ \E a \in AgentIds, st \in AgentStatuses : UpdateAgentStatus(a, st)
    \/ \E r \in {NoSession} \cup Seconds, g \in {NULL} \cup Goals : MainStart(r, g)
    \/ MainResume
    \/ MainFresh
    \/ MainCoordinator
    \/ \E o \in Outcomes, k \in 0..Len(InitializeCalls) : MainInitialize(o, k)
    \/ MainReport

SpecMain == Init /\ [][NextMain]_vars

\* C10: a run with --resume whose session id has no session row when the run
\* looks it up is at the error exit with code 1, get_session_info has
\* returned the empty result, and the run has inserted no report row and no
\* session row.
C10_ResumeAbsentExits ==
    console.absent =>
      /\ console.pc = "exited"
      /\ console.exit = 1
      /\ console.reason = "not_found"
      /\ console.session_info = {}
      /\ console.reports_added = {}
      /\ console.sessions_added = {}

\* such a run has ended, in a store where other sessions and reports exist
C10_Witness ==
    /\ console.absent
    /\ console.pc = "exited"
    /\ sessions # {}
    /\ reports # {}

(***************************************************************************)
(* The reconcilers on payloads that are no list, on lists with elements    *)
(* that are no records, and on records without an identifier.              *)
(***************************************************************************)
SyncOps == {"sync_tasks_from_json", "sync_from_json"}

\* a run of either reconciler on a list
ListRun == lastOp.op \in SyncOps /\ lastOp.args.payload.kind = "list"

\* the run of the last operation's reconciler on the store it started from,
\* with the list items in place of its own
Rerun(items, latest) ==
    LET first == seq.tasks - Cardinality(Inserted)
        payload == [kind |-> "list", items |-> items]
    IN  IF lastOp.op = "sync_tasks_from_json"
          THEN sync_tasks_from_json(lastOp.pre, first, payload, latest, now)
          ELSE sync_from_json(lastOp.pre, first, payload, latest, now)

\* the last run left the store, and counted, as a run on items would have
SameAsRunOn(items) ==
    \E latest \in FetchLatest(sessions) :
        /\ tasks = Rerun(items, latest).tasks
        /\ lastOp.result.synced_count = Rerun(items, latest).synced_count

IsRecord(e) == e.kind = "dict"

HasIdentifier(e) == e.kind # "dict" \/ Truthy(Or(Get(e.id), Get(e.task_id)))

\* C13: a reconciler given a payload that does not parse, or that is no list
\* at its top level, returns to its caller without an exception, has counted
\* nothing, and leaves the tasks table as it was.
C13_NoListNoEffect ==
    lastOp.op \in SyncOps /\ lastOp.args.payload.kind # "list" =>
      /\ tasks = lastOp.pre
      /\ lastOp.result.synced_count = 0
      /\ ~lastOp.result.propagated

\* both kinds of such a payload have been given to a store that holds tasks
C13_Witness ==
    /\ lastOp.op = "sync_tasks_from_json"
    /\ lastOp.args.payload.kind = "invalid"
    /\ lastOp.result.raised
    /\ tasks # {}

\* C14: a run on a list with elements that are no records leaves the store as
\* the run on the list without those elements would, and no exception reaches
\* the caller.
C14_SkipsOnlyMalformed ==
    ListRun =>
      /\ SameAsRunOn(SelectSeq(lastOp.args.payload.items, IsRecord))
      /\ ~lastOp.result.propagated

\* what C15 says of the last run
StatusApplied ==
    LET items == lastOp.args.payload.items
    IN  \A id \in PayloadIds(items) :
          IF StatusRecords(items, id) # {}
            THEN LET last == CHOOSE i \in StatusRecords(items, id) :
                               \A j \in StatusRecords(items, id) : j <= i
                 IN  \A r \in RowsOf(tasks, id) : r.status = items[last].status
            ELSE \A r \in RowsOf(lastOp.pre, id) :
                   \E n \in RowsOf(tasks, id) : n.id = r.id /\ n.status = r.status

\* C15: after a run on a list, for every identifier of the list: when a record
\* of it carries a status that is not pending, every row of the identifier
\* has that status (the last one, when several records carry one), whether the
\* row was there before or not; otherwise the rows that were there before
\* have the status they had.
C15_StatusAppliedAlways == ListRun => StatusApplied

\* the same for lists whose elements are all records
C15_RecordsOnly == ListRun /\ AllRecords(lastOp.args.payload.items) => StatusApplied

\* C16: the count of a reconciliation run is the number of rows the run
\* inserted; a run that inserts none, whatever it updates, counts zero.
C16_CountIsInserted ==
    lastOp.op \in SyncOps => lastOp.result.synced_count = Cardinality(Inserted)

\* a run of sync_tasks_from_json that changed the status of a row and inserted none
C16_Witness ==
    /\ lastOp.op = "sync_tasks_from_json"
    /\ Inserted = {}
    /\ tasks # lastOp.pre
    /\ lastOp.result.synced_count = 0

\* C20: a run on a list leaves the store, and counts, as the run on the list
\* without its records that carry no identifier would: such a record creates
\* and updates nothing, is not counted, and the records after it are processed.
C20_NoIdentifierNoEffect ==
    ListRun => SameAsRunOn(SelectSeq(lastOp.args.payload.items, HasIdentifier))

\* a run on a list that has a record without an identifier before one with
C20_Witness ==
    /\ ListRun
    /\ Len(lastOp.args.payload.items) = 2
    /\ ~HasIdentifier(lastOp.args.payload.items[1])
    /\ HasIdentifier(lastOp.args.payload.items[2])
    /\ IsRecord(lastOp.args.payload.items[2])
    /\ Inserted # {}

(***************************************************************************)
(* SpecAll: every store call of every writer: the console coordinator,     *)
(* the dashboard, TaskSync, the reconcilers and the agent utility, on few  *)
(* tasks and short payloads, all within one second of the clock (the       *)
(* second in which handles share a session id).                            *)
(***************************************************************************)
\* the payloads given to the reconcilers in SpecAll: one that does not parse,
\* a list of one record, a list of one element that is no record
FewPayloads ==
    { [kind |-> "invalid", items |-> << >>],
      [kind |-> "list",
       items |-> << Rec("t1", Absent, Absent, Absent, "completed", Absent, Absent) >>],
      [kind |-> "list", items |-> << NotARecord >>] }

NextAll ==
    \/ \E g \in Goals : NewCoordinator(g)
    \/ /\ seq.tasks < MaxAllTasks
       /\ AddTask("t1", "builder", "d1")
    \/ \E id \in TaskIds : CompleteTask(id)
    \/ GetCompletedTasksCount
    \/ AddAgent("builder", "builder_001")
    \/ GenerateReport
    \/ /\ seq.tasks < MaxAllTasks
       /\ \E p \in FewPayloads : SyncTasksFromJson(p)
    \/ /\ seq.tasks < MaxAllTasks
       /\ \E p \in FewPayloads : SyncFromJson(p)
    \/ WebStart
    \/ NewTaskSync
    \/ /\ seq.tasks < MaxAllTasks
       /\ WebAddTask("t1", "builder", "d1")
    \/ \E id \in TaskIds : WebUpdateTask(id, "completed", NULL, NULL)
    \/ \E id \in TaskIds : WebDeleteTask(id)
    \/ /\ seq.tasks < MaxAllTasks
       /\ TaskSyncCreateTask("t1", "d1", "builder", NoSession)
    \/ \E id \in TaskIds : TaskSyncUpdateTask(id, "in_progress", NULL, NULL)
    \/ \E id \in TaskIds : TaskSyncDeleteTask(id)
    \/ SyncAgent("builder", "builder_001", NoSession, "active")
    \/ \E a \in AgentIds, st \in AgentStatuses : UpdateAgentStatus(a, st)
    \/ \E ph \in {"planning", "implementation"} : SetPhase(ph)

SpecAll == Init /\ [][NextAll]_vars

Rows == << sessions, agents, tasks, reports >>

\* C11: CoordinatorAgent's create_session, on a session id with no row,
\* inserts one row for it with phase initialization; on an id that has a row
\* it raises, and the sessions table is as before: one row for the id, with
\* the goal, created_at and phase it had.
C11_CreateSessionOnce ==
    [][\A g \in Goals :
         NewCoordinator(g) =>
           IF Stamp(now) \in SessionIds(sessions)
             THEN /\ lastOp'.result = "IntegrityError"
                  /\ sessions' = sessions
                  /\ Cardinality({ s \in sessions' : s.session_id = Stamp(now) }) = 1
             ELSE /\ lastOp'.result = "ok"
                  /\ sessions' = sessions \cup
                       { SessionRow(Stamp(now), Iso(now), g, "initialization") }]_vars

\* create_session has failed on the id of a session another writer made, which
\* has another goal and phase than the one asked for
C11_Witness ==
    /\ lastOp.op = "CoordinatorAgent"
    /\ lastOp.result = "IntegrityError"
    /\ \E s \in sessions :
         /\ s.session_id = Stamp(now)
         /\ s.project_goal # lastOp.args.project_goal
         /\ s.current_phase # "initialization"

UnknownTask(task_id) == \A r \in tasks : r.task_id # task_id

UnknownAgent(agent_id) == \A a \in agents : a.agent_id # agent_id

\* C12: update_task (TaskSync's or the dashboard's) and complete_task on a
\* task_id that no row has, and update_agent_status on an agent_id that no
\* row has, change no row of any table and return without an error.
C12_UnknownIdNoEffect ==
    [][/\ \A id \in TaskIds, st \in OptStatuses :
            /\ UnknownTask(id)
            /\ \/ TaskSyncUpdateTask(id, st, NULL, NULL)
               \/ WebUpdateTask(id, st, NULL, NULL)
               \/ CompleteTask(id)
            => UNCHANGED Rows /\ lastOp'.result = "ok"
       /\ \A a \in AgentIds, st \in AgentStatuses :
            UnknownAgent(a) /\ UpdateAgentStatus(a, st)
            => UNCHANGED Rows /\ lastOp'.result \in BOOLEAN]_vars

\* update_agent_status has run for an agent_id no row has, in a store with agents
C12_Witness ==
    /\ lastOp.op = "update_agent_status"
    /\ lastOp.result = TRUE
    /\ agents # {}
    /\ UnknownAgent(lastOp.args.agent_id)

\* C18: no step of any writer removes or changes a report row, and
\* generate_report adds exactly one, for the coordinator's session.
C18_ReportsAppendOnly ==
    [][/\ reports \subseteq reports'
       /\ GenerateReport =>
            \E r \in reports' \ reports :
              /\ reports' = reports \cup {r}
              /\ r.session_id = coordinator]_vars

\* a second report has been added for a session
C18_Witness ==
    /\ lastOp.op = "generate_report"
    /\ \E r1 \in reports, r2 \in reports : r1.id # r2.id /\ r1.session_id = r2.session_id

\* C19: constructing a ProjectState (the dashboard's, or the coordinator's
\* before it creates its session) or a TaskSync leaves every row of the four
\* tables as it was.
C19_ConstructKeepsRows ==
    [][/\ WebStart \/ NewTaskSync => UNCHANGED Rows
       /\ \A g \in Goals :
            NewCoordinator(g) =>
              sessions \subseteq sessions' /\ UNCHANGED << agents, tasks, reports >>]_vars

\* a handle has been constructed on a file that holds rows in every table
C19_Witness ==
    /\ lastOp.op \in {"run_web_server", "TaskSync"}
    /\ sessions # {}
    /\ agents # {}
    /\ tasks # {}
    /\ reports # {}

\* the run of main has created its session, not resuming another
FreshRun == console.resume = NoSession /\ console.sessions_added # {}

\* C17: a run of main that has created its session makes no report before
\* initialize_project has ended, and is at its end only after exactly one
\* generate_report, whose report is for that session: with exit code 0 when
\* initialize_project completed or was interrupted from the keyboard, with
\* exit code 1 when it raised another exception.
C17_ReportBeforeExit ==
    FreshRun =>
      /\ console.pc \in {"initialize", "report"} => console.reports_added = {}
      /\ console.pc = "exited" =>
           /\ Cardinality(console.reports_added) = 1
           /\ \A r \in reports :
                r.id \in console.reports_added =>
                  r.session_id \in console.sessions_added
           /\ console.exit = IF console.outcome = "Exception" THEN 1 ELSE 0

\* a run whose initialize_project raised after some of its calls has ended
C17_Witness ==
    /\ FreshRun
    /\ console.pc = "exited"
    /\ console.outcome = "Exception"
    /\ console.exit = 1
    /\ \E r \in reports : r.id \in console.reports_added /\ r.phase = "planning"

(***************************************************************************)
(* Completion and the completion time.                                     *)
(***************************************************************************)
\* C21: complete_task(task_id) leaves the tasks table as update_task(task_id,
\* status = completed) at the same time would have left the table it started
\* from, also when several sessions hold a row with the task_id.
C21_CompleteIsUpdateCompleted ==
    lastOp.op = "complete_task" =>
      tasks = TaskSync_update_task(lastOp.pre, lastOp.args.task_id, "completed",
                                   NULL, NULL, lastOp.args.t)

\* an update_task that does not set the status to completed
NotCompleting == lastOp.op = "update_task" /\ lastOp.args.status # "completed"

\* C26: update_task with a status other than completed, or with no status,
\* leaves completed_at of every row as it was: a row reopened keeps the time
\* of its completion, a row never completed keeps NULL.
C26_OtherUpdateKeepsStamp ==
    NotCompleting =>
      \A r \in lastOp.pre : \E q \in tasks : q.id = r.id /\ q.completed_at = r.completed_at

\* a completed row was moved to another status, beside a row never completed
C26_Witness ==
    /\ NotCompleting
    /\ Truthy(lastOp.args.status)
    /\ \E r \in lastOp.pre :
         /\ r.task_id = lastOp.args.task_id
         /\ r.status = "completed"
         /\ r.completed_at # NoTime
         /\ \E q \in tasks : /\ q.id = r.id
                             /\ q.status = lastOp.args.status
                             /\ q.completed_at = r.completed_at
    /\ \E n \in tasks : n.completed_at = NoTime

(***************************************************************************)
(* What a reconciler run leaves of the rows it found.                      *)
(***************************************************************************)
\* the row q is the row r in everything a reconciler does not own
SameTrackedData(r, q) ==
    /\ q.id = r.id
    /\ q.task_id = r.task_id
    /\ q.description = r.description
    /\ q.agent_role = r.agent_role
    /\ q.session_id = r.session_id
    /\ q.created_at = r.created_at

\* C27: a run of either reconciler, whatever its payload and however it ends,
\* deletes no task row, and every row that existed before the run has the
\* description, agent_role, session_id and created_at it had.
C27_RunKeepsTrackedData ==
    lastOp.op \in SyncOps =>
      \A r \in lastOp.pre : \E q \in tasks : SameTrackedData(r, q)

\* a run whose list holds, for the identifier of a row it found, a record with
\* another description and a status to apply
C27_Witness ==
    /\ ListRun
    /\ \E r \in lastOp.pre : \E i \in 1..Len(lastOp.args.payload.items) :
         LET e == lastOp.args.payload.items[i]
         IN  /\ IsRecord(e)
             /\ ResolveId(e) = r.task_id
             /\ Truthy(Get(e.description))
             /\ e.description # r.description
             /\ \E q \in tasks : SameTrackedData(r, q) /\ q.status # r.status

\* C25: in every reachable state, whatever the writers did in whatever order,
\* a task row with status completed has a completed_at that is not NULL.
C25_CompletedHasStamp ==
    \A r \in tasks : r.status = "completed" => r.completed_at # NoTime

\* complete_task has just completed a row that was pending and unstamped
C25_Witness ==
    /\ lastOp.op = "complete_task"
    /\ \E r \in lastOp.pre :
         /\ r.status = "pending"
         /\ r.completed_at = NoTime
         /\ \E q \in tasks : /\ q.id = r.id
                             /\ q.status = "completed"
                             /\ q.completed_at # NoTime

(***************************************************************************)
(* The life of an agent row.                                               *)
(***************************************************************************)
\* the agent row b is the row a, unchanged or retired
SameOrRetired(a, b) ==
    /\ b.id = a.id
    /\ b.role = a.role
    /\ b.agent_id = a.agent_id
    /\ b.session_id = a.session_id
    /\ b.started_at = a.started_at
    /\ \/ b.status = a.status
       \/ a.status = "active" /\ b.status = "retired"

\* C22: no step of add_agent, sync_agent or update_agent_status changes an
\* agent row other than from active to retired: no row goes from retired back
\* to active, and none changes role, agent_id, session_id or started_at.
C22_OnlyActiveToRetired ==
    [][\A a \in agents : \E b \in agents' : SameOrRetired(a, b)]_vars

(***************************************************************************)
(* main --resume with a session the store holds.                           *)
(***************************************************************************)
\* a run of main --resume that found its session has ended
ResumedRunEnded ==
    /\ console.resume # NoSession
    /\ ~console.absent
    /\ console.pc = "exited"

\* C29: a run of main --resume on a session present in the store adds no
\* session row, and ends having added exactly one report row, which carries
\* the identifier of the resumed session.
C29_ResumeAddsOnlyReport ==
    ResumedRunEnded =>
      /\ console.sessions_added = {}
      /\ Cardinality(console.reports_added) = 1
      /\ \A r \in reports :
           r.id \in console.reports_added => r.session_id = console.resume

(***************************************************************************)
(* SpecSessions: the reconcilers over the sessions of successive           *)
(* coordinators, as the clock advances.                                    *)
(***************************************************************************)
NextSessions ==
    \/ Tick
    \/ \E g \in Goals : NewCoordinator(g)
    \/ \E p \in FewPayloads : SyncTasksFromJson(p)
    \/ \E p \in FewPayloads : SyncFromJson(p)
    \/ \E id \in TaskIds : TaskSyncDeleteTask(id)

SpecSessions == Init /\ [][NextSessions]_vars

\* the rows of T that carry task_id x in session sid
RowsIn(T, x, sid) == { r \in T : r.task_id = x /\ r.session_id = sid }

\* C30: when the most recent session holds no row with identifier X, a
\* reconciler run on a list of records with a record for X ends with exactly
\* one row with task_id X in the most recent session, and every row with
\* task_id X of another session has the status it had.
C30_PerSession ==
    (ListRun /\ AllRecords(lastOp.args.payload.items)) =>
      \A latest \in FetchLatest(sessions) : \A x \in PayloadIds(lastOp.args.payload.items) :
        (latest # NoSession /\ RowsIn(lastOp.pre, x, latest) = {}) =>
          /\ Cardinality(RowsIn(tasks, x, latest)) = 1
          /\ \A r \in lastOp.pre :
               (r.task_id = x /\ r.session_id # latest) =>
                 \E q \in tasks : q.id = r.id /\ q.status = r.status

(***************************************************************************)
(* SpecRace: two runs of sync_tasks_from_json on one store, statement by   *)
(* statement.                                                              *)
(***************************************************************************)
NextRace ==
    \/ \E g \in Goals : NewCoordinator(g)
    \/ \E p \in Syncers, payload \in FewPayloads : SyncCall(p, payload)
    \/ \E p \in Syncers : SyncCheck(p)
    \/ \E p \in Syncers : SyncCreate(p)
    \/ \E p \in Syncers : SyncStatus(p)

SpecRace == Init /\ [][NextRace]_vars

\* the run p is at the element of its list that names the identifier x
AtRecordFor(p, x) ==
    /\ running.sync[p].i \in 1..Len(running.sync[p].items)
    /\ IsRecord(running.sync[p].items[running.sync[p].i])
    /\ ResolveId(running.sync[p].items[running.sync[p].i]) = x

\* C23: the existence check and the create of sync_tasks_from_json are two
\* committed steps: a run whose check found no row for its identifier inserts
\* a row for it at its create step, whatever other runs have inserted in
\* between, so that two runs that both check before either creates leave two
\* rows with the task_id.
C23_CreateAfterCheckInserts ==
    [][\A p \in Syncers, x \in TaskIds :
         (AtRecordFor(p, x) /\ running.sync[p].pc = "create"
            /\ running'.sync[p].pc = "status")
         => \E r \in tasks' \ tasks : r.task_id = x]_vars

\* both runs are over, each has counted one creation of t1, and the store,
\* which held no row for t1 when they checked, holds two
C23_Witness ==
    /\ \A p \in Syncers : /\ running.sync[p].pc = "done"
                          /\ running.sync[p].synced_count = 1
                          /\ Len(running.sync[p].items) = 1
                          /\ ResolveId(running.sync[p].items[1]) = "t1"
    /\ Cardinality({ r \in tasks : r.task_id = "t1" }) = 2

(***************************************************************************)
(* SpecReport: generate_report statement by statement, beside the writers  *)
(* of its session's tasks and phase.                                       *)
(***************************************************************************)
NextReport ==
    \/ \E g \in Goals : NewCoordinator(g)
    \/ /\ seq.tasks < MaxAllTasks
       /\ AddTask("t1", "builder", "d1")
    \/ \E id \in TaskIds : CompleteTask(id)
    \/ \E id \in TaskIds : TaskSyncUpdateTask(id, "pending", NULL, NULL)
    \/ \E id \in TaskIds : TaskSyncDeleteTask(id)
    \/ \E ph \in {"planning", "implementation"} : SetPhase(ph)
    \/ ReportSessionInfo
    \/ ReportCount
    \/ ReportAgents
    \/ ReportAdd

SpecReport == Init /\ [][NextReport]_vars

\* the current_phase of the session sid in the sessions table S
PhaseOf(S, sid) ==
    IF \E x \in S : x.session_id = sid
      THEN (CHOOSE x \in S : x.session_id = sid).current_phase
      ELSE "unknown"

\* C24: a report row, at the step that commits it, carries the number of
\* completed task rows its session has in the store at that step, and the
\* current_phase the session has at that step, also when other writers have
\* completed, reopened or deleted tasks or set the phase while
\* generate_report was running.
C24_ReportIsCurrent ==
    [][\A r \in reports' \ reports :
         /\ r.completed_tasks = ProjectState_get_completed_tasks_count(tasks, r.session_id)
         /\ r.phase = PhaseOf(sessions, r.session_id)]_vars

(***************************************************************************)
(* SpecUpdates: one update_task call of each of two writers on one store.  *)
(***************************************************************************)
NextUpdates ==
    \/ WebStart
    \/ /\ seq.tasks < MaxTasks
       /\ \E id \in TaskIds : TaskSyncCreateTask(id, "d1", "builder", NoSession)
    \/ \E w \in Writers, id \in TaskIds, st \in OptStatuses, d \in {NULL, "d2"} :
         UpdateCall(w, id, st, NULL, d)
    \/ \E w \in Writers : UpdateCommit(w)

SpecUpdates == Init /\ [][NextUpdates]_vars

Columns == {"status", "agent_role", "description"}

\* the writers whose present call supplied the column c, in commit order
Suppliers(c) == SelectSeq(running.committed, LAMBDA w : Truthy(running.update[w][c]))

\* both writers' calls on one task_id have returned
BothReturned ==
    /\ \A w \in Writers : running.update[w].pc = "returned"
    /\ running.update["web"].task_id = running.update["task_sync"].task_id

\* the rows still in the table that the statements of both calls matched
BothMatched ==
    { r \in tasks : \A w \in Writers : r.id \in running.update[w].matched }

\* C28: once the update_task calls of two writers on one task_id have both
\* returned, a row both statements matched holds, in every column that a call
\* supplied, the value of the call that committed last among those that
\* supplied it: the status of the one and the description of the other when
\* each supplied one of them, the status of the later commit when both
\* supplied a status.
C28_LastWriterPerColumn ==
    BothReturned =>
      \A r \in BothMatched : \A c \in Columns :
        Suppliers(c) # << >> =>
          r[c] = running.update[Suppliers(c)[Len(Suppliers(c))]][c]

\* the dashboard supplied only a status, task_sync only a description, the
\* dashboard's statement committed last, and the row holds both values
C28_Witness ==
    /\ BothReturned
    /\ running.committed = << "task_sync", "web" >>
    /\ Truthy(running.update["web"].status)
    /\ ~Truthy(running.update["web"].description)
    /\ Truthy(running.update["task_sync"].description)
    /\ ~Truthy(running.update["task_sync"].status)
    /\ \E r \in BothMatched : /\ r.status = running.update["web"].status
                              /\ r.description = running.update["task_sync"].description

====
